---- MODULE Spec2Model ----
(***************************************************************************)
(* Model of the numerical-trait question-answering pipeline of             *)
(* "Code/05. Numerical_Traits_QA.ipynb": QA_Prediction (best-answer        *)
(* selection), post_process_answer_height / _leaf_length / _leaf_width     *)
(* (unit-aware answer parsing), post_post_process_answer (resolution) and  *)
(* the loops that run them over the rows of the data frames.               *)
(*                                                                         *)
(* Texts are sequences of one-character strings.  Scores returned by the   *)
(* QA pipeline are integers counting ten-thousandths; rounded scores count *)
(* thousandths.  Parsed numbers are exact decimals [m, d] = m / 10^d.      *)
(***************************************************************************)
EXTENDS Integers, Sequences, FiniteSets, TLC

VARIABLES
    Description,    \* QA_Prediction argument: [str |-> BOOLEAN, val |-> text]
    Questions,      \* QA_Prediction argument: list of questions
    pc,             \* position inside QA_Prediction
    q_i,            \* index of the question the loop is at (1-based)
    answer_list,    \* answers collected by the loop
    score_list,     \* rounded scores collected by the loop
    calls,          \* log of the invocations of model_pipeline
    ret,            \* value returned by QA_Prediction
    answer,         \* argument of the post_process_answer_* functions
    phase,          \* "input", "parsed" or "resolved"
    trait,          \* which post_process_answer_* function was applied
    post_processed, \* its return value (a text)
    prediction,     \* return value of post_post_process_answer
    df_dict,        \* the data frame of each dataset: its rows and the
                    \* columns the loops have added
    mask_dict,      \* focus_name -> the rows that hold a value of the trait
    model_dict,     \* model name -> question-answering pipeline
    lists,          \* question_list, answer_list, score_list of the pass
    pass,           \* which (trait, dataset, model) pass the run is at
    row_i,          \* index of the selected row the loop is at (1-based)
    bpc             \* position inside the pass

selVars == <<Description, Questions, pc, q_i, answer_list, score_list, calls, ret>>
parseVars == <<answer, phase, trait, post_processed, prediction>>
batchVars == <<df_dict, mask_dict, model_dict, lists, pass, row_i, bpc>>
vars == <<Description, Questions, pc, q_i, answer_list, score_list, calls, ret,
          answer, phase, trait, post_processed, prediction,
          df_dict, mask_dict, model_dict, lists, pass, row_i, bpc>>

(***************************************************************************)
(* Bounds of the model.                                                    *)
(***************************************************************************)
MaxQuestions == 3
MaxWords == 3
MaxRows == 2

(***************************************************************************)
(* Characters and texts.                                                   *)
(***************************************************************************)
Digits == {"0", "1", "2", "3", "4", "5", "6", "7", "8", "9"}

\* str.isdigit on one character
isdigit(c) == c \in Digits

\* string.punctuation (all of it but the grave accent, which no text of the
\* model holds)
punctuation ==
    {"!", "\"", "#", "$", "%", "&", "'", "(", ")", "*", "+", ",", "-", ".",
     "/", ":", ";", "<", "=", ">", "?", "@", "[", "\\", "]", "^", "_",
     "{", "|", "}", "~"}

\* x in list
In(x, list) == \E i \in 1..Len(list) : list[i] = x

\* the text of the Python literal, character by character
NoDescription == <<"N", "o", " ", "D", "e", "s", "c", "r", "i", "p", "t", "i", "o", "n">>
NoNumber == <<"N", "o", " ", "N", "u", "m", "b", "e", "r">>

(***************************************************************************)
(* QA_Prediction.                                                          *)
(***************************************************************************)
\* a test for None alone, which lets the other missing values through
is_not_None(d) == d.str \/ d.val # <<"N", "o", "n", "e">>

\* isinstance(Description, str)
isinstance_str(d) == d.str

\* str.isalnum in the place of str.isdigit
any_isalnum(text) == \E i \in 1..Len(text) : text[i] \notin (punctuation \cup {" "})

\* any(map(str.isdigit, Description))
any_isdigit(text) == \E i \in 1..Len(text) : isdigit(text[i])

\* np.round(score, 3) of a score given in ten-thousandths, in thousandths
\* (round half to even)
Round3(raw) ==
    LET q == raw \div 10
        r == raw % 10
    IN  IF r < 5 THEN q
        ELSE IF r > 5 THEN q + 1
        ELSE IF q % 2 = 0 THEN q ELSE q + 1

ArgMaxLast(list) ==
    CHOOSE i \in 1..Len(list) :
        /\ \A j \in 1..Len(list) : list[j] <= list[i]
        /\ \A j \in (i + 1)..Len(list) : list[j] < list[i]

\* np.argmax(score_list): the index of the first occurrence of the maximum
ArgMax(list) ==
    CHOOSE i \in 1..Len(list) :
        /\ \A j \in 1..Len(list) : list[j] <= list[i]
        /\ \A j \in 1..(i - 1) : list[j] < list[i]

\* what model_pipeline may answer: any answer text with any score in [0, 1]
PipelineAnswers == {<<"1", " ", "m">>, <<"2", "-", "3", " ", "c", "m">>}
PipelineScores == {0, 4994, 4996, 5004, 9999}
PipelineOutputs == [answer : PipelineAnswers, score : PipelineScores]

\* the descriptions a dataset row may hold: missing values (NaN, None) and texts
Descriptions ==
    {[str |-> FALSE, val |-> <<"n", "a", "n">>],
     [str |-> FALSE, val |-> <<"N", "o", "n", "e">>],
     [str |-> TRUE, val |-> <<>>],
     [str |-> TRUE, val |-> <<"t", "r", "e", "e">>],
     [str |-> TRUE, val |-> <<"a", " ", "-", " ", "b", ".">>],
     [str |-> TRUE, val |-> <<"7">>],
     [str |-> TRUE, val |-> <<"u", "p", " ", "t", "o", " ", "2", " ", "m">>]}

QuestionTexts == {"How tall is the plant?", "What is the height?"}
QuestionLists == UNION {[1..n -> QuestionTexts] : n \in 0..MaxQuestions}

NoPrediction == [kind |-> "none", m |-> 0, d |-> 0]
NoRet == [question |-> "", answer |-> <<>>, score |-> -1]
NoLists == [question_list |-> <<>>, answer_list |-> <<>>, score_list |-> <<>>]

InitSel ==
    /\ Description \in Descriptions
    /\ Questions \in QuestionLists
    /\ pc = "start"
    /\ q_i = 1
    /\ answer_list = <<>>
    /\ score_list = <<>>
    /\ calls = <<>>
    /\ ret = NoRet
    /\ answer = <<>>
    /\ phase = "idle"
    /\ trait = "none"
    /\ post_processed = <<>>
    /\ prediction = NoPrediction
    /\ df_dict = <<>>
    /\ mask_dict = <<>>
    /\ model_dict = <<>>
    /\ lists = NoLists
    /\ pass = 1
    /\ row_i = 1
    /\ bpc = "idle"

\* lines 116-125: the two early returns, else entry into the loop
QA_Entry ==
    /\ pc = "start"
    /\ IF ~isinstance_str(Description)
       THEN /\ ret' = [question |-> "", answer |-> NoDescription, score |-> 0]
            /\ pc' = "done"
       ELSE IF ~any_isdigit(Description.val)
       THEN /\ ret' = [question |-> "", answer |-> NoNumber, score |-> 0]
            /\ pc' = "done"
       ELSE /\ ret' = ret
            /\ pc' = "loop"
    /\ UNCHANGED <<Description, Questions, q_i, answer_list, score_list, calls>>
    /\ UNCHANGED parseVars
    /\ UNCHANGED batchVars

\* lines 127-136: one iteration of the loop over the questions
QA_Ask ==
    /\ pc = "loop"
    /\ q_i <= Len(Questions)
    /\ \E res \in PipelineOutputs :
        /\ calls' = Append(calls, [question |-> Questions[q_i],
                                   context |-> Description.val,
                                   answer |-> res.answer,
                                   score |-> res.score])
        /\ answer_list' = Append(answer_list, res.answer)
        /\ score_list' = Append(score_list, Round3(res.score))
    /\ q_i' = q_i + 1
    /\ UNCHANGED <<Description, Questions, pc, ret>>
    /\ UNCHANGED parseVars
    /\ UNCHANGED batchVars

\* lines 139-144: the best performing answer; np.argmax of an empty list raises
QA_Select ==
    /\ pc = "loop"
    /\ q_i > Len(Questions)
    /\ IF Len(score_list) = 0
       THEN /\ pc' = "raised"
            /\ ret' = ret
       ELSE LET best_answer_i == ArgMax(score_list)
            IN  /\ ret' = [question |-> Questions[best_answer_i],
                           answer |-> answer_list[best_answer_i],
                           score |-> score_list[best_answer_i]]
                /\ pc' = "done"
    /\ UNCHANGED <<Description, Questions, q_i, answer_list, score_list, calls>>
    /\ UNCHANGED parseVars
    /\ UNCHANGED batchVars

NextSel == QA_Entry \/ QA_Ask \/ QA_Select

(***************************************************************************)
(* Text operations used by the post_process_answer_* functions.            *)
(***************************************************************************)
\* str.split(sep) with a one-character separator: empty parts are kept
RECURSIVE split(_, _)
split(s, sep) ==
    IF ~In(sep, s) THEN <<s>>
    ELSE LET i == CHOOSE k \in 1..Len(s) :
                      s[k] = sep /\ \A j \in 1..(k - 1) : s[j] # sep
         IN  <<SubSeq(s, 1, i - 1)>> \o split(SubSeq(s, i + 1, Len(s)), sep)

\* sep.join(list)
RECURSIVE join(_, _)
join(sep, list) ==
    IF Len(list) = 0 THEN <<>>
    ELSE IF Len(list) = 1 THEN list[1]
    ELSE list[1] \o sep \o join(sep, Tail(list))

\* the text kept as it is, punctuation included
translate_nothing(s) == s

\* answer.translate(str.maketrans('', '', string.punctuation))
translate_punctuation(s) == SelectSeq(s, LAMBDA c : c \notin punctuation)

\* the text with its dashes kept
replace_nothing(s) == s

\* answer.replace("-", " ")
replace_dash(s) == [i \in 1..Len(s) |-> IF s[i] = "-" THEN " " ELSE s[i]]

\* re.sub("\(.*?\)", "", answer): every "(" up to the first ")" after it
RECURSIVE re_sub_paren_content(_)
re_sub_paren_content(s) ==
    IF \E i \in 1..Len(s) : s[i] = "(" /\ \E k \in (i + 1)..Len(s) : s[k] = ")"
    THEN LET i == CHOOSE n \in 1..Len(s) :
                      s[n] = "(" /\ \A j \in 1..(n - 1) : s[j] # "("
             k == CHOOSE n \in (i + 1)..Len(s) :
                      s[n] = ")" /\ \A j \in (i + 1)..(n - 1) : s[j] # ")"
         IN  SubSeq(s, 1, i - 1) \o re_sub_paren_content(SubSeq(s, k + 1, Len(s)))
    ELSE s

\* re.sub("\(*?\)", "", answer): every ")" with the "(" characters that
\* stand directly before it; what lies between "(" and ")" stays
re_sub_paren_star(s) ==
    LET matched(i) ==
            \/ s[i] = ")"
            \/ /\ s[i] = "("
               /\ \E k \in (i + 1)..Len(s) :
                      s[k] = ")" /\ \A j \in i..(k - 1) : s[j] = "("
        keep == {i \in 1..Len(s) : ~matched(i)}
        RECURSIVE pick(_)
        pick(i) == IF i > Len(s) THEN <<>>
                   ELSE IF i \in keep THEN <<s[i]>> \o pick(i + 1)
                   ELSE pick(i + 1)
    IN  pick(1)

(***************************************************************************)
(* Numbers.  A float is the exact decimal [m |-> mantissa, d |-> decimals],*)
(* that is m / 10^d, kept canonical (no trailing zero among the decimals). *)
(***************************************************************************)
RECURSIVE Pow10(_)
Pow10(n) == IF n = 0 THEN 1 ELSE 10 * Pow10(n - 1)

DigitVal(c) ==
    CASE c = "0" -> 0 [] c = "1" -> 1 [] c = "2" -> 2 [] c = "3" -> 3
      [] c = "4" -> 4 [] c = "5" -> 5 [] c = "6" -> 6 [] c = "7" -> 7
      [] c = "8" -> 8 [] c = "9" -> 9

DigitChar(n) ==
    CASE n = 0 -> "0" [] n = 1 -> "1" [] n = 2 -> "2" [] n = 3 -> "3"
      [] n = 4 -> "4" [] n = 5 -> "5" [] n = 6 -> "6" [] n = 7 -> "7"
      [] n = 8 -> "8" [] n = 9 -> "9"

RECURSIVE Canon(_)
Canon(v) ==
    IF v.d > 0 /\ v.m % 10 = 0 THEN Canon([m |-> v.m \div 10, d |-> v.d - 1]) ELSE v

UpperCase == <<"A", "B", "C", "D", "E", "F", "G", "H", "I", "J", "K", "L", "M",
               "N", "O", "P", "Q", "R", "S", "T", "U", "V", "W", "X", "Y", "Z">>
LowerCase == <<"a", "b", "c", "d", "e", "f", "g", "h", "i", "j", "k", "l", "m",
               "n", "o", "p", "q", "r", "s", "t", "u", "v", "w", "x", "y", "z">>

\* s.lower(), for the letters A-Z
Lower(s) ==
    [i \in 1..Len(s) |->
        IF In(s[i], UpperCase)
        THEN LowerCase[CHOOSE k \in 1..Len(UpperCase) : UpperCase[k] = s[i]]
        ELSE s[i]]

\* the part without its sign, when it has one
Unsigned(part) ==
    IF Len(part) > 0 /\ part[1] \in {"+", "-"} THEN Tail(part) ELSE part

\* the values of float that are not decimals: nan, inf, -inf
NaN == [m |-> 0, d |-> -1]
Infinity(sign) == [m |-> sign, d |-> -1]
IsDecimal(v) == v.d >= 0

\* the spellings float() reads as nan and as inf, in any letter case
nan_spellings == {<<"n", "a", "n">>}
inf_spellings == {<<"i", "n", "f">>, <<"i", "n", "f", "i", "n", "i", "t", "y">>}

\* is_float(element) on a text: float(element) does not raise ValueError.
\* float() accepts a decimal literal (an optional sign, digits with at most one
\* point, at least one digit) and, with an optional sign and in any letter
\* case, "nan", "inf" and "infinity" (the texts of the model hold no exponent
\* and no underscore)
is_float(element) ==
    LET body == Unsigned(element)
    IN  \/ /\ \E i \in 1..Len(body) : isdigit(body[i])
           /\ \A i \in 1..Len(body) : isdigit(body[i]) \/ body[i] = "."
           /\ Cardinality({i \in 1..Len(body) : body[i] = "."}) <= 1
        \/ Lower(body) \in nan_spellings \cup inf_spellings

RECURSIVE DigitsValue(_)
DigitsValue(ds) ==
    IF Len(ds) = 0 THEN 0
    ELSE 10 * DigitsValue(SubSeq(ds, 1, Len(ds) - 1)) + DigitVal(ds[Len(ds)])

\* float(element), for an element that is_float accepts
float(element) ==
    LET body == Unsigned(element)
        sign == IF Len(element) > 0 /\ element[1] = "-" THEN -1 ELSE 1
        ds == SelectSeq(body, isdigit)
        point == {i \in 1..Len(body) : body[i] = "."}
        dec == IF point = {} THEN 0
               ELSE Len(body) - (CHOOSE i \in point : TRUE)
    IN  IF Lower(body) \in nan_spellings THEN NaN
        ELSE IF Lower(body) \in inf_spellings THEN Infinity(sign)
        ELSE Canon([m |-> sign * DigitsValue(ds), d |-> dec])

\* np.round(v, 4): round half to even at the fourth decimal
round4(v) ==
    IF v.d <= 4 THEN v
    ELSE LET unit == Pow10(v.d - 4)
             q == v.m \div unit
             r == v.m % unit
         IN  Canon([m |-> IF 2 * r < unit THEN q
                          ELSE IF 2 * r > unit THEN q + 1
                          ELSE IF q % 2 = 0 THEN q ELSE q + 1,
                    d |-> 4])

RECURSIVE NatToText(_)
NatToText(n) ==
    IF n < 10 THEN <<DigitChar(n)>>
    ELSE NatToText(n \div 10) \o <<DigitChar(n % 10)>>

\* n written with exactly w digits
RECURSIVE Padded(_, _)
Padded(n, w) ==
    IF w = 0 THEN <<>> ELSE Padded(n \div 10, w - 1) \o <<DigitChar(n % 10)>>

\* str(v) of a float: shortest decimal form, always with a point ("2.0")
\* ("nan", "inf" and "-inf" for the values that are not decimals)
str(v) ==
    LET c == Canon(v)
        a == IF c.m < 0 THEN -c.m ELSE c.m
        whole == NatToText(a \div Pow10(c.d))
        frac == IF c.d = 0 THEN <<"0">> ELSE Padded(a % Pow10(c.d), c.d)
    IN  IF v = NaN THEN <<"n", "a", "n">>
        ELSE IF ~IsDecimal(v)
        THEN (IF v.m < 0 THEN <<"-">> ELSE <<>>) \o <<"i", "n", "f">>
        ELSE (IF c.m < 0 THEN <<"-">> ELSE <<>>) \o whole \o <<".">> \o frac

(***************************************************************************)
(* post_process_answer_height, _leaf_length, _leaf_width.                  *)
(***************************************************************************)
available_units ==
    << <<"m", "m">>, <<"c", "m">>, <<"m">>, <<"k", "m">>,
       <<"i", "n", "c", "h", "e", "s">>, <<"f", "t">>, <<"y", "d", "s">>,
       <<"m", "i", "l", "e", "s">> >>

\* (1, 10, 1000, 1e6, 25.4, 304.8, 914.4, 1.609344e6)
conversions ==
    << [m |-> 1, d |-> 0], [m |-> 10, d |-> 0], [m |-> 1000, d |-> 0],
       [m |-> 1000000, d |-> 0], [m |-> 254, d |-> 1], [m |-> 3048, d |-> 1],
       [m |-> 9144, d |-> 1], [m |-> 1609344, d |-> 0] >>

\* the two tuples zipped one place apart
conversion_dict_shifted(unit) ==
    conversions[((CHOOSE i \in 1..Len(available_units) : available_units[i] = unit)
                     % Len(conversions)) + 1]

\* conversion_dict[unit], the dictionary zip(available_units, conversions) builds
conversion_dict(unit) ==
    conversions[CHOOSE i \in 1..Len(available_units) : available_units[i] = unit]

NoMetric == <<"N", "o", " ", "m", "e", "t", "r", "i", "c">>
TooManyNumbers ==
    <<"T", "o", "o", " ", "m", "a", "n", "y", " ", "n", "u", "m", "b", "e", "r", "s">>

\* sub is a substring of s
Substring(sub, s) ==
    \E i \in 1..(Len(s) - Len(sub) + 1) : SubSeq(s, i, i + Len(sub) - 1) = sub

\* "unit in answer_punc" (a substring test) in the place of
\* "unit in answer_punc.split(' ')"
units_in_substring(ans) ==
    {i \in 1..Len(available_units) :
        Substring(available_units[i], translate_punctuation(ans))}

\* the units that are words of the punctuation-free answer
units_in(ans) ==
    LET answer_punc == translate_punctuation(ans)
    IN  {i \in 1..Len(available_units) : In(available_units[i], split(answer_punc, " "))}

\* flag after the loop over available_units
flag(ans) == IF units_in(ans) = {} THEN 0 ELSE 1

\* metric after the loop that breaks at the first unit found (height)
metric_break(ans) ==
    available_units[CHOOSE i \in units_in(ans) : \A j \in units_in(ans) : i <= j]

\* metric after the loop that has no break: every unit found overwrites it
\* (leaf length, leaf width)
metric_no_break(ans) ==
    available_units[CHOOSE i \in units_in(ans) : \A j \in units_in(ans) : j <= i]

\* float(part) * conversion_dict[metric] / 10^shift (nan stays nan and inf
\* stays inf: every factor is positive)
converted(part, metric, shift) ==
    LET v == float(part)
        c == conversion_dict(metric)
    IN  IF ~IsDecimal(v) THEN v
        ELSE Canon([m |-> v.m * c.m, d |-> v.d + c.d + shift])

\* the loop over answer.split(" "), then " ".join(result)
RECURSIVE walk_parts(_, _, _, _, _)
walk_parts(parts, counter, result, metric, shift) ==
    IF Len(parts) = 0 THEN join(<<" ">>, result)
    ELSE IF counter > 2 THEN TooManyNumbers
    ELSE IF is_float(Head(parts))
    THEN walk_parts(Tail(parts), counter + 1,
                    Append(result, str(round4(converted(Head(parts), metric, shift)))),
                    metric, shift)
    ELSE walk_parts(Tail(parts), counter, result, metric, shift)

\* answer.replace("-", " "), then the loop over answer.split(" ")
extract(cleaned, metric, shift) ==
    walk_parts(split(replace_dash(cleaned), " "), 0, <<>>, metric, shift)

\* what a parser leaves when list[i] raises IndexError: not a text
IndexError == <<"IndexError">>

\* list[i - 1] of Python: the element, or IndexError when the list is shorter
item(list, i) == IF i <= Len(list) THEN list[i] ELSE IndexError

\* index 0 in the place of index 1
leaf_width_segment_first(ans) == IF In("x", ans) THEN item(split(ans, "x"), 1) ELSE ans

\* index 2 in the place of index 1
leaf_width_segment_third(ans) == IF In("x", ans) THEN item(split(ans, "x"), 3) ELSE ans

\* if "x" in answer: answer = answer.split("x")[0]
leaf_length_segment(ans) == IF In("x", ans) THEN item(split(ans, "x"), 1) ELSE ans

\* if "x" in answer: answer = answer.split("x")[1]
leaf_width_segment(ans) == IF In("x", ans) THEN item(split(ans, "x"), 2) ELSE ans

post_process_answer_height(ans) ==
    IF flag(ans) = 0 THEN NoMetric
    ELSE extract(re_sub_paren_star(ans), metric_break(ans), 3)

post_process_answer_leaf_length(ans) ==
    IF flag(ans) = 0 THEN NoMetric
    ELSE IF leaf_length_segment(ans) = IndexError THEN IndexError
    ELSE extract(re_sub_paren_star(leaf_length_segment(ans)), metric_no_break(ans), 1)

post_process_answer_leaf_width(ans) ==
    IF flag(ans) = 0 THEN NoMetric
    ELSE IF leaf_width_segment(ans) = IndexError THEN IndexError
    ELSE extract(re_sub_paren_content(leaf_width_segment(ans)), metric_no_break(ans), 1)

(***************************************************************************)
(* post_post_process_answer.                                               *)
(***************************************************************************)
\* a float the resolver returns: a decimal, nan or an infinity
Float(v) ==
    [kind |-> IF IsDecimal(v) THEN "float" ELSE IF v = NaN THEN "nan" ELSE "inf",
     m |-> v.m, d |-> v.d]
MinusOne == [kind |-> "int", m |-> -1, d |-> 0]

\* two numbers treated as any other shape
post_post_process_answer_single(ans) ==
    LET answer_parts == split(ans, " ")
    IN  IF Len(answer_parts) = 1 /\ is_float(answer_parts[1])
        THEN Float(float(answer_parts[1]))
        ELSE MinusOne

\* the first of two numbers in the place of the second
post_post_process_answer_first(ans) ==
    LET answer_parts == split(ans, " ")
    IN  IF Len(answer_parts) \in {1, 2} /\ \A i \in 1..Len(answer_parts) : is_float(answer_parts[i])
        THEN Float(float(answer_parts[1]))
        ELSE MinusOne

post_post_process_answer(ans) ==
    LET answer_parts == split(ans, " ")
    IN  IF Len(answer_parts) = 1 /\ is_float(answer_parts[1])
        THEN Float(float(answer_parts[1]))
        ELSE IF /\ Len(answer_parts) = 2
                /\ is_float(answer_parts[1])
                /\ is_float(answer_parts[2])
        THEN Float(float(answer_parts[2]))
        ELSE MinusOne

(***************************************************************************)
(* Applying the parser and the resolver to an answer text.                 *)
(***************************************************************************)
\* the texts made of at most MaxWords words of a vocabulary, one space between
Texts(vocabulary) ==
    {join(<<" ">>, ws) : ws \in UNION {[1..n -> vocabulary] : n \in 0..MaxWords}}

PostProcessHeight ==
    /\ phase = "input"
    /\ post_processed' = post_process_answer_height(answer)
    /\ trait' = "Height"
    /\ phase' = "parsed"
    /\ UNCHANGED <<answer, prediction>>
    /\ UNCHANGED selVars
    /\ UNCHANGED batchVars

PostProcessLeafLength ==
    /\ phase = "input"
    /\ post_processed' = post_process_answer_leaf_length(answer)
    /\ trait' = "LeafLength"
    /\ phase' = IF post_processed' = IndexError THEN "raised" ELSE "parsed"
    /\ UNCHANGED <<answer, prediction>>
    /\ UNCHANGED selVars
    /\ UNCHANGED batchVars

PostProcessLeafWidth ==
    /\ phase = "input"
    /\ post_processed' = post_process_answer_leaf_width(answer)
    /\ trait' = "LeafWidth"
    /\ phase' = IF post_processed' = IndexError THEN "raised" ELSE "parsed"
    /\ UNCHANGED <<answer, prediction>>
    /\ UNCHANGED selVars
    /\ UNCHANGED batchVars

PostPostProcess ==
    /\ phase = "parsed"
    /\ prediction' = post_post_process_answer(post_processed)
    /\ phase' = "resolved"
    /\ UNCHANGED <<answer, trait, post_processed>>
    /\ UNCHANGED selVars
    /\ UNCHANGED batchVars

NextParse ==
    \/ PostProcessHeight
    \/ PostProcessLeafLength
    \/ PostProcessLeafWidth
    \/ PostPostProcess

SpecSel == InitSel /\ [][NextSel]_vars

\* words about units: a number, the eight symbols, another letter case,
\* punctuation attached, a symbol inside a longer word
UnitWords ==
    { <<"1">>, <<"m", "m">>, <<"c", "m">>, <<"m">>, <<"k", "m">>,
      <<"i", "n", "c", "h", "e", "s">>, <<"f", "t">>, <<"y", "d", "s">>,
      <<"m", "i", "l", "e", "s">>,
      <<"C", "m">>, <<"(", "c", "m", ")", ".">>, <<"1", "c", "m">> }

InitUnit ==
    /\ answer \in Texts(UnitWords)
    /\ phase = "input"
    /\ trait = "none"
    /\ post_processed = <<>>
    /\ prediction = NoPrediction
    /\ Description = [str |-> TRUE, val |-> <<>>]
    /\ Questions = <<>>
    /\ pc = "idle"
    /\ q_i = 1
    /\ answer_list = <<>>
    /\ score_list = <<>>
    /\ calls = <<>>
    /\ ret = NoRet
    /\ df_dict = <<>>
    /\ mask_dict = <<>>
    /\ model_dict = <<>>
    /\ lists = NoLists
    /\ pass = 1
    /\ row_i = 1
    /\ bpc = "idle"

SpecUnit == InitUnit /\ [][NextParse]_vars

\* words about numbers: ranges, dimensions ("x"), parentheses, two units
NumWords ==
    { <<>>, <<"1">>, <<"2", "-", "3">>, <<"4", "x", "5">>,
      <<"2", "0", "-", "4", "0", "x", "1", "0", "-", "3", "0">>,
      <<"(", "r">>, <<"8", ")">>, <<"(", "9", ")">>,
      <<"c", "m">>, <<"m", "m">> }

InitNum ==
    /\ answer \in Texts(NumWords)
    /\ phase = "input"
    /\ trait = "none"
    /\ post_processed = <<>>
    /\ prediction = NoPrediction
    /\ Description = [str |-> TRUE, val |-> <<>>]
    /\ Questions = <<>>
    /\ pc = "idle"
    /\ q_i = 1
    /\ answer_list = <<>>
    /\ score_list = <<>>
    /\ calls = <<>>
    /\ ret = NoRet
    /\ df_dict = <<>>
    /\ mask_dict = <<>>
    /\ model_dict = <<>>
    /\ lists = NoLists
    /\ pass = 1
    /\ row_i = 1
    /\ bpc = "idle"

SpecNum == InitNum /\ [][NextParse]_vars

\* words about conversion: decimal numbers, a range and the eight units
ConvWords ==
    { <<"2", "0", "-", "3", "7">>, <<"1", ".", "8">>, <<"0", ".", "0", "5">>,
      <<"m", "m">>, <<"c", "m">>, <<"m">>, <<"k", "m">>,
      <<"i", "n", "c", "h", "e", "s">>, <<"f", "t">>, <<"y", "d", "s">>,
      <<"m", "i", "l", "e", "s">> }

InitConv ==
    /\ answer \in Texts(ConvWords)
    /\ phase = "input"
    /\ trait = "none"
    /\ post_processed = <<>>
    /\ prediction = NoPrediction
    /\ Description = [str |-> TRUE, val |-> <<>>]
    /\ Questions = <<>>
    /\ pc = "idle"
    /\ q_i = 1
    /\ answer_list = <<>>
    /\ score_list = <<>>
    /\ calls = <<>>
    /\ ret = NoRet
    /\ df_dict = <<>>
    /\ mask_dict = <<>>
    /\ model_dict = <<>>
    /\ lists = NoLists
    /\ pass = 1
    /\ row_i = 1
    /\ bpc = "idle"

SpecConv == InitConv /\ [][NextParse]_vars

\* words an answer may hold that show the edges of the parser: the words of
\* the answers QA_Prediction returns without a question asked, "nan", an "x"
\* with nothing after it, zero, a number behind a dash, a range written
\* downwards and one written upwards
EdgeWords ==
    { <<>>, <<"N", "o">>, <<"D", "e", "s", "c", "r", "i", "p", "t", "i", "o", "n">>,
      <<"N", "u", "m", "b", "e", "r">>, <<"n", "a", "n">>, <<"4", "x">>,
      <<"0">>, <<"-", "1">>, <<"3", "-", "2">>, <<"2", "-", "3">>, <<"c", "m">> }

InitEdge ==
    /\ answer \in Texts(EdgeWords)
    /\ phase = "input"
    /\ trait = "none"
    /\ post_processed = <<>>
    /\ prediction = NoPrediction
    /\ Description = [str |-> TRUE, val |-> <<>>]
    /\ Questions = <<>>
    /\ pc = "idle"
    /\ q_i = 1
    /\ answer_list = <<>>
    /\ score_list = <<>>
    /\ calls = <<>>
    /\ ret = NoRet
    /\ df_dict = <<>>
    /\ mask_dict = <<>>
    /\ model_dict = <<>>
    /\ lists = NoLists
    /\ pass = 1
    /\ row_i = 1
    /\ bpc = "idle"

SpecEdge == InitEdge /\ [][NextParse]_vars

\* words of the texts post_post_process_answer may be given: the words of
\* "No metric" and "Too many numbers", numbers as str writes them, "nan", a
\* word that is no number, the empty word (two spaces in a row)
ResolveWords ==
    { <<>>, <<"N", "o">>, <<"m", "e", "t", "r", "i", "c">>, <<"T", "o", "o">>,
      <<"m", "a", "n", "y">>, <<"n", "u", "m", "b", "e", "r", "s">>,
      <<"0", ".", "2">>, <<"0", ".", "3", "7">>, <<"1", ".", "8">>,
      <<"n", "a", "n">>, <<"1", ".", "2", ".", "3">> }

\* post_post_process_answer called on a text, whatever produced it
InitResolve ==
    /\ post_processed \in Texts(ResolveWords)
    /\ phase = "parsed"
    /\ answer = <<>>
    /\ trait = "none"
    /\ prediction = NoPrediction
    /\ Description = [str |-> TRUE, val |-> <<>>]
    /\ Questions = <<>>
    /\ pc = "idle"
    /\ q_i = 1
    /\ answer_list = <<>>
    /\ score_list = <<>>
    /\ calls = <<>>
    /\ ret = NoRet
    /\ df_dict = <<>>
    /\ mask_dict = <<>>
    /\ model_dict = <<>>
    /\ lists = NoLists
    /\ pass = 1
    /\ row_i = 1
    /\ bpc = "idle"

NextResolve == PostPostProcess

SpecResolve == InitResolve /\ [][NextResolve]_vars

(***************************************************************************)
(* The loops over the data frames ("QA Predictions"): for each trait, each *)
(* dataset and each model, one pass over the rows that hold a value of the *)
(* trait.                                                                  *)
(***************************************************************************)
\* the three cells of the notebook: focus_name, focus_code, questions, the
\* post_process_answer_* function of the cell and its list of datasets
PlantHeightMax ==
    [focus_name |-> "Plant Height Max", focus_code |-> "1.6.2", trait |-> "Height",
     questions |-> <<"How tall is the plant?", "What is the height?">>,
     datasets |-> <<"POWO", "POWO_MGH">>]
LeafLengthMax ==
    [focus_name |-> "Leaf Length Max", focus_code |-> "4.6.2", trait |-> "LeafLength",
     questions |-> <<"How long is the leaf?", "What is the leaf length?">>,
     datasets |-> <<"POWO", "POWO_ML">>]
LeafWidthMax ==
    [focus_name |-> "Leaf Width Max", focus_code |-> "4.7.2", trait |-> "LeafWidth",
     questions |-> <<"How wide is the leaf?", "What is the leaf width?">>,
     datasets |-> <<"POWO", "POWO_ML">>]

Cells == <<PlantHeightMax, LeafLengthMax, LeafWidthMax>>
Models == <<"DistilBERT", "ROBERTA">>
Datasets == {"POWO", "POWO_MGH", "POWO_ML"}
OutputVars == <<"Questions", "Answers", "Scores", "Predictions">>

\* the passes in the order the notebook runs them: cell by cell, and in a cell
\* "for dataset in ...: for model in ...:"
Passes ==
    [n \in 1..(Len(Cells) * 2 * Len(Models)) |->
        LET c == ((n - 1) \div (2 * Len(Models))) + 1
            d == (((n - 1) % (2 * Len(Models))) \div Len(Models)) + 1
            m == ((n - 1) % Len(Models)) + 1
        IN  [focus |-> Cells[c], dataset |-> Cells[c].datasets[d], model |-> Models[m]]]

\* the questions that begin with "How"
HowQuestions == {Cells[c].questions[1] : c \in 1..Len(Cells)}

\* question-answering pipelines: the answer is a span of the context (the
\* context without its first skip words for a "What" question), the score, in
\* ten-thousandths, depends on the question; with the first one the two scores
\* round to the same value, with the second one the "What" question wins
Pipelines ==
    { [how |-> 4996, what |-> 5004, skip |-> 0],
      [how |-> 4994, what |-> 9999, skip |-> 1] }

span(context, skip) ==
    LET words == split(context, " ")
    IN  IF Len(words) > skip THEN join(<<" ">>, SubSeq(words, skip + 1, Len(words)))
        ELSE context

\* model_pipeline(question = question, context = Description)
model_pipeline(pipeline, question, context) ==
    IF question \in HowQuestions
    THEN [answer |-> context, score |-> pipeline.how]
    ELSE [answer |-> span(context, pipeline.skip), score |-> pipeline.what]

\* QA_Prediction(Questions, Description, model_pipeline) as one call, for a
\* list of at least one question
QA_Prediction(questions, description, pipeline) ==
    IF ~isinstance_str(description)
    THEN [question |-> "", answer |-> NoDescription, score |-> 0]
    ELSE IF ~any_isdigit(description.val)
    THEN [question |-> "", answer |-> NoNumber, score |-> 0]
    ELSE LET res == [q \in 1..Len(questions) |->
                        model_pipeline(pipeline, questions[q], description.val)]
             scores == [q \in 1..Len(questions) |-> Round3(res[q].score)]
             best_answer_i == ArgMax(scores)
         IN  [question |-> questions[best_answer_i],
              answer |-> res[best_answer_i].answer,
              score |-> scores[best_answer_i]]

\* the post_process_answer_* function the cell of a trait calls
post_process_answer(t, ans) ==
    CASE t = "Height" -> post_process_answer_height(ans)
      [] t = "LeafLength" -> post_process_answer_leaf_length(ans)
      [] t = "LeafWidth" -> post_process_answer_leaf_width(ans)

\* the rows a data frame may hold: the description (a text or a missing
\* value) and the trait columns that hold a value (notna)
RowKinds ==
    { [QA_description |-> [str |-> TRUE,
                           val |-> <<"t", "o", " ", "2", "-", "3", " ", "m">>],
       notna |-> {"1.6.2", "4.6.2", "4.7.2"}],
      [QA_description |-> [str |-> TRUE,
                           val |-> <<"c", "a", " ", "4", "x", "5", " ", "c", "m">>],
       notna |-> {"4.6.2", "4.7.2"}],
      [QA_description |-> [str |-> FALSE, val |-> <<"n", "a", "n">>],
       notna |-> {"1.6.2", "4.7.2"}],
      [QA_description |-> [str |-> TRUE, val |-> <<"t", "a", "l", "l">>],
       notna |-> {"1.6.2", "4.6.2"}],
      [QA_description |-> [str |-> TRUE, val |-> <<"7", " ", "m", "m">>],
       notna |-> {}] }

RowLists == UNION {[1..n -> RowKinds] : n \in 1..MaxRows}

\* a data frame as read from its file: no column of the loops yet
DataFrame(rows) == [rows |-> rows, columns |-> <<>>]

\* the cells of a column: a question, an answer (a text), a number, or the
\* str "" in a column of numbers
Number(n, d) == [kind |-> "float", m |-> n, d |-> d]
EmptyStr == [kind |-> "str", m |-> 0, d |-> 0]
blank(var) ==
    CASE var = "Questions" -> ""
      [] var = "Answers" -> <<>>
      [] OTHER -> EmptyStr

\* df[focus_code].notna()
notna(df, focus_code) == [r \in 1..Len(df.rows) |-> focus_code \in df.rows[r].notna]

\* df[mask]: the rows the mask selects, in the order of the frame
selected(df, mask) ==
    LET index == SelectSeq([r \in 1..Len(mask) |-> r], LAMBDA r : mask[r])
    IN  [k \in 1..Len(index) |-> df.rows[index[k]]]

\* how many rows the mask selects up to row r
rank(mask, r) == Cardinality({j \in 1..r : mask[j]})

\* the values handed to the selected rows from the last one to the first
loc_assign_reversed(column, mask, data) ==
    [r \in 1..Len(column) |->
        IF mask[r] THEN data[Len(data) + 1 - rank(mask, r)] ELSE column[r]]

\* df.loc[mask, name] = data: the k-th value goes to the k-th selected row
loc_assign(column, mask, data) ==
    [r \in 1..Len(column) |-> IF mask[r] THEN data[rank(mask, r)] ELSE column[r]]

\* the name of a column: focus_code + "_" + var + "_" + model
column_name(focus_code, var, model) == <<focus_code, var, model>>

InitBatch ==
    /\ df_dict \in {[ds \in Datasets |-> DataFrame(rows)] : rows \in RowLists}
    /\ mask_dict = <<>>
    /\ model_dict \in [{Models[m] : m \in 1..Len(Models)} -> Pipelines]
    /\ lists = NoLists
    /\ pass = 1
    /\ row_i = 1
    /\ bpc = "next"
    /\ Description = [str |-> TRUE, val |-> <<>>]
    /\ Questions = <<>>
    /\ pc = "idle"
    /\ q_i = 1
    /\ answer_list = <<>>
    /\ score_list = <<>>
    /\ calls = <<>>
    /\ ret = NoRet
    /\ answer = <<>>
    /\ phase = "idle"
    /\ trait = "none"
    /\ post_processed = <<>>
    /\ prediction = NoPrediction

\* the head of a pass: the lists are emptied, the mask of the trait is taken
BatchBegin ==
    /\ bpc = "next"
    /\ pass <= Len(Passes)
    /\ LET p == Passes[pass]
       IN  mask_dict' = (p.focus.focus_name :> notna(df_dict[p.dataset], p.focus.focus_code))
                            @@ mask_dict
    /\ lists' = NoLists
    /\ row_i' = 1
    /\ bpc' = "loop"
    /\ UNCHANGED <<df_dict, model_dict, pass>>
    /\ UNCHANGED selVars
    /\ UNCHANGED parseVars

\* one iteration of the loop over the selected rows
BatchRow ==
    /\ bpc = "loop"
    /\ LET p == Passes[pass]
           rows == selected(df_dict[p.dataset], mask_dict[p.focus.focus_name])
       IN  /\ row_i <= Len(rows)
           /\ LET r == QA_Prediction(p.focus.questions, rows[row_i].QA_description,
                                     model_dict[p.model])
              IN  lists' = [question_list |-> Append(lists.question_list, r.question),
                            answer_list |-> Append(lists.answer_list, r.answer),
                            score_list |-> Append(lists.score_list, r.score)]
    /\ row_i' = row_i + 1
    /\ UNCHANGED <<df_dict, mask_dict, model_dict, pass, bpc>>
    /\ UNCHANGED selVars
    /\ UNCHANGED parseVars

\* after the loop: the answers are post-processed and the four columns of the
\* pass are set to "" and then, on the selected rows, to the lists
BatchWrite ==
    /\ bpc = "loop"
    /\ LET p == Passes[pass]
           df == df_dict[p.dataset]
           mask == mask_dict[p.focus.focus_name]
           post_predictions ==
               [k \in 1..Len(lists.answer_list) |->
                   post_process_answer(p.focus.trait, lists.answer_list[k])]
           post_post_predictions ==
               [k \in 1..Len(post_predictions) |->
                   post_post_process_answer(post_predictions[k])]
           scores == [k \in 1..Len(lists.score_list) |-> Number(lists.score_list[k], 3)]
           data == <<lists.question_list, lists.answer_list, scores, post_post_predictions>>
           written == [v \in 1..Len(OutputVars) |->
                          loc_assign([r \in 1..Len(df.rows) |-> blank(OutputVars[v])],
                                     mask, data[v])]
           named == [name \in {column_name(p.focus.focus_code, OutputVars[v], p.model) :
                                   v \in 1..Len(OutputVars)} |->
                        written[CHOOSE v \in 1..Len(OutputVars) : OutputVars[v] = name[2]]]
       IN  /\ row_i > Len(selected(df, mask))
           /\ IF \E k \in 1..Len(post_predictions) : post_predictions[k] = IndexError
              THEN /\ bpc' = "raised"
                   /\ UNCHANGED <<df_dict, pass>>
              ELSE /\ df_dict' = [df_dict EXCEPT ![p.dataset].columns = named @@ df.columns]
                   /\ pass' = pass + 1
                   /\ bpc' = "next"
    /\ UNCHANGED <<mask_dict, model_dict, lists, row_i>>
    /\ UNCHANGED selVars
    /\ UNCHANGED parseVars

NextBatch == BatchBegin \/ BatchRow \/ BatchWrite

SpecBatch == InitBatch /\ [][NextBatch]_vars

(***************************************************************************)
(* Properties of QA_Prediction, under SpecSel.                             *)
(***************************************************************************)
Returned == pc = "done"
Entered == pc # "start"
HasDigit(text) ==
    \E i \in 1..Len(text) :
        text[i] \in {"0", "1", "2", "3", "4", "5", "6", "7", "8", "9"}

\* the thousandth nearest to a score given in ten-thousandths (the even one
\* when two are equally near)
Nearest3(raw) ==
    CHOOSE k \in {raw \div 10, raw \div 10 + 1} :
        \/ 10 * k - raw < 5 /\ raw - 10 * k < 5
        \/ (10 * k - raw = 5 \/ raw - 10 * k = 5) /\ k % 2 = 0

\* C1: for a description that is a text without any digit, whatever the
\* questions, QA_Prediction returns ("", "No Number", 0) and model_pipeline is
\* never called.
C1_NoDigitNoNumber ==
    (Entered /\ Description.str /\ ~HasDigit(Description.val))
        => /\ Returned
           /\ ret = [question |-> "", answer |-> NoNumber, score |-> 0]
           /\ calls = <<>>

C1_Witness ==
    /\ Returned
    /\ Description.str
    /\ Description.val # <<>>
    /\ ~HasDigit(Description.val)
    /\ Len(Questions) >= 2
    /\ ret.answer = NoNumber

\* C2 as stated: a description that is not a text, and also the empty text,
\* gives ("", "No Description", 0) without any call of model_pipeline.
C2_Original ==
    (Entered /\ (~Description.str \/ Description.val = <<>>))
        => /\ Returned
           /\ ret = [question |-> "", answer |-> NoDescription, score |-> 0]
           /\ calls = <<>>

\* C2 amended: a description that is not a text (a missing or non-text value)
\* gives ("", "No Description", 0); the empty text is a text and gives
\* ("", "No Number", 0); in both cases model_pipeline is never called.
C2_NotTextNoDescription ==
    /\ (Entered /\ ~Description.str)
           => /\ Returned
              /\ ret = [question |-> "", answer |-> NoDescription, score |-> 0]
              /\ calls = <<>>
    /\ (Entered /\ Description.str /\ Description.val = <<>>)
           => /\ Returned
              /\ ret = [question |-> "", answer |-> NoNumber, score |-> 0]
              /\ calls = <<>>

C2_Witness ==
    /\ Returned
    /\ ~Description.str
    /\ Len(Questions) >= 1
    /\ ret.answer = NoDescription

\* C3: for a text with a digit and at least one question, model_pipeline is
\* called exactly once per question, in list order, with the description as
\* context, and the triple returned is that of the first candidate whose score
\* rounded to 3 decimals is the maximum.
C3_FirstMaximum ==
    (Description.str /\ HasDigit(Description.val) /\ Len(Questions) >= 1 /\ Entered)
        => /\ pc \in {"loop", "done"}
           /\ Len(calls) <= Len(Questions)
           /\ \A i \in 1..Len(calls) :
                  /\ calls[i].question = Questions[i]
                  /\ calls[i].context = Description.val
           /\ Returned =>
                  /\ Len(calls) = Len(Questions)
                  /\ \E b \in 1..Len(calls) :
                         /\ ret = [question |-> Questions[b],
                                   answer |-> calls[b].answer,
                                   score |-> Nearest3(calls[b].score)]
                         /\ \A j \in 1..Len(calls) :
                                Nearest3(calls[j].score) <= ret.score
                         /\ \A j \in 1..(b - 1) :
                                Nearest3(calls[j].score) < ret.score

\* two candidates share the maximal rounded score, with different raw scores
\* and different answers, and the earlier one is returned
C3_Witness ==
    /\ Returned
    /\ Len(calls) >= 2
    /\ \E i, j \in 1..Len(calls) :
           /\ i < j
           /\ Nearest3(calls[i].score) = ret.score
           /\ Nearest3(calls[j].score) = ret.score
           /\ calls[i].score < calls[j].score
           /\ calls[i].answer # calls[j].answer
           /\ ret.answer = calls[i].answer
           /\ \A k \in 1..(i - 1) : Nearest3(calls[k].score) < ret.score

(***************************************************************************)
(* Properties of the post_process_answer_* functions.                      *)
(***************************************************************************)
Parsed == phase \in {"parsed", "resolved"}
Resolved == phase = "resolved"

\* the numbers a result text holds
ResultValues(text) == SelectSeq(split(text, " "), is_float)

\* the unit symbols, in the priority order
PriorityOrder ==
    << <<"m", "m">>, <<"c", "m">>, <<"m">>, <<"k", "m">>,
       <<"i", "n", "c", "h", "e", "s">>, <<"f", "t">>, <<"y", "d", "s">>,
       <<"m", "i", "l", "e", "s">> >>

RECURSIVE Unpunctuated(_)
Unpunctuated(s) ==
    IF s = <<>> THEN <<>>
    ELSE IF Head(s) \in punctuation THEN Unpunctuated(Tail(s))
    ELSE <<Head(s)>> \o Unpunctuated(Tail(s))

\* u stands in s as a word of its own, between spaces or the ends of s
StandsAlone(u, s) ==
    \E i \in 1..(Len(s) - Len(u) + 1) :
        /\ SubSeq(s, i, i + Len(u) - 1) = u
        /\ i = 1 \/ s[i - 1] = " "
        /\ i + Len(u) - 1 = Len(s) \/ s[i + Len(u)] = " "

\* the units that are standalone tokens of the punctuation-stripped text
TokenUnits(text) ==
    {i \in 1..Len(PriorityOrder) : StandsAlone(PriorityOrder[i], Unpunctuated(text))}

HasUnitToken(text) == TokenUnits(text) # {}

FirstInPriority(text) ==
    PriorityOrder[CHOOSE i \in TokenUnits(text) : \A j \in TokenUnits(text) : i <= j]

LastInPriority(text) ==
    PriorityOrder[CHOOSE i \in TokenUnits(text) : \A j \in TokenUnits(text) : j <= i]

\* C4 as stated: the result of the parser never holds more than 2 numeric
\* values, wherever the numbers stand in the answer (three or more numeric
\* tokens give "Too many numbers").
C4_AtMostTwoValues ==
    Parsed => Len(ResultValues(post_processed)) <= 2

\* C5: an answer in which no unit symbol is a standalone token of the
\* punctuation-stripped text gives "No metric", for every trait, whatever
\* numbers it holds.
C5_NoUnitNoMetric ==
    (Parsed /\ ~HasUnitToken(answer)) => post_processed = NoMetric

\* a number and a unit symbol inside a longer word: no unit token
C5_Witness ==
    /\ Parsed
    /\ trait = "LeafWidth"
    /\ ~HasUnitToken(answer)
    /\ HasDigit(answer)
    /\ \E i \in 1..Len(PriorityOrder) : Substring(PriorityOrder[i], answer)
    /\ post_processed = NoMetric

\* C6 as stated: a unit symbol written as a word in any letter case, or with
\* punctuation attached, is detected (the result is not "No metric"); a unit
\* symbol that is only part of a longer word is not.
C6_Original ==
    Parsed => (post_processed # NoMetric <=> HasUnitToken(Lower(answer)))

\* C6 amended: detection does not depend on the punctuation attached to the
\* word but it does depend on the letter case: the result is not "No metric"
\* exactly when a unit symbol, written in lower case as in the unit table, is a
\* space-delimited word of the punctuation-stripped answer.
C6_PunctuationOnly ==
    Parsed => (post_processed # NoMetric <=> HasUnitToken(answer))

\* a unit detected only thanks to the removal of the punctuation attached
C6_Witness ==
    /\ Parsed
    /\ post_processed # NoMetric
    /\ HasUnitToken(answer)
    /\ \A i \in 1..Len(PriorityOrder) : ~StandsAlone(PriorityOrder[i], answer)

\* what the parser of a trait gives when it converts with the unit u
ConvertedWith(t, ans, u) ==
    CASE t = "Height" -> extract(re_sub_paren_star(ans), u, 3)
      [] t = "LeafLength" -> extract(re_sub_paren_star(leaf_length_segment(ans)), u, 1)
      [] t = "LeafWidth" -> extract(re_sub_paren_content(leaf_width_segment(ans)), u, 1)

\* C7 as stated: in the Height and the LeafLength parsers the unit used for
\* the conversion is the first, in priority order, of the unit tokens.
C7_Original ==
    (Parsed /\ trait \in {"Height", "LeafLength"} /\ HasUnitToken(answer))
        => post_processed = ConvertedWith(trait, answer, FirstInPriority(answer))

\* the segments of an answer around its first "x"
FirstX(text) == CHOOSE i \in 1..Len(text) : text[i] = "x" /\ \A j \in 1..(i - 1) : text[j] # "x"
BeforeFirstX(text) == SubSeq(text, 1, FirstX(text) - 1)
AfterFirstX(text) == SubSeq(text, FirstX(text) + 1, Len(text))
UpToNextX(text) == IF In("x", text) THEN BeforeFirstX(text) ELSE text

DimensionExample ==
    <<"2", "0", "-", "4", "0", "x", "1", "0", "-", "3", "0", " ", "m", "m">>

RECURSIVE Depth(_, _)
Depth(text, n) ==
    IF n = 0 THEN 0
    ELSE Depth(text, n - 1) + (IF text[n] = "(" THEN 1 ELSE IF text[n] = ")" THEN -1 ELSE 0)

WellParenthesised(text) ==
    /\ \A n \in 1..Len(text) : Depth(text, n) \in {0, 1}
    /\ Depth(text, Len(text)) = 0

\* C9 as stated: for every trait, what stands between "(" and the ")" that
\* closes it is removed before the numbers are extracted, so a number in
\* parentheses is neither converted nor counted, and the three parsers agree
\* (stated for the answers without "x" whose parentheses are well formed).
C9_ParentheticalRemoved ==
    (Parsed /\ HasUnitToken(answer) /\ WellParenthesised(answer) /\ ~In("x", answer)) =>
        /\ trait = "Height" =>
               post_processed = extract(re_sub_paren_content(answer),
                                        FirstInPriority(answer), 3)
        /\ trait = "LeafLength" =>
               post_processed = extract(re_sub_paren_content(answer),
                                        LastInPriority(answer), 1)
        /\ trait = "LeafWidth" =>
               post_processed = extract(re_sub_paren_content(answer),
                                        LastInPriority(answer), 1)

\* the millimeter factor of each unit symbol: mm=1, cm=10, m=1000, km=1e6,
\* inches=25.4, ft=304.8, yds=914.4, miles=1.609344e6
MillimeterFactor(u) ==
    CASE u = <<"m", "m">> -> [m |-> 1, d |-> 0]
      [] u = <<"c", "m">> -> [m |-> 10, d |-> 0]
      [] u = <<"m">> -> [m |-> 1000, d |-> 0]
      [] u = <<"k", "m">> -> [m |-> 1000000, d |-> 0]
      [] u = <<"i", "n", "c", "h", "e", "s">> -> [m |-> 254, d |-> 1]
      [] u = <<"f", "t">> -> [m |-> 3048, d |-> 1]
      [] u = <<"y", "d", "s">> -> [m |-> 9144, d |-> 1]
      [] u = <<"m", "i", "l", "e", "s">> -> [m |-> 1609344, d |-> 0]

\* the number of decimal places the division moves the point by: / 1000 for
\* Height (meters), / 10 for LeafLength and LeafWidth (centimeters)
DivisorPlaces(t) == IF t = "Height" THEN 3 ELSE 1

\* the unit the parser of trait t converts with
UsedUnit(t, text) == IF t = "Height" THEN FirstInPriority(text) ELSE LastInPriority(text)

\* v * factor(u) / divisor(t), exactly
ExactValue(v, u, t) ==
    [m |-> v.m * MillimeterFactor(u).m,
     d |-> v.d + MillimeterFactor(u).d + DivisorPlaces(t)]

Abs(n) == IF n < 0 THEN -n ELSE n

\* r is e rounded to 4 decimal places
IsRounded4(r, e) ==
    IF e.d <= 4 THEN Canon(r) = Canon(e)
    ELSE /\ r.d <= 4
         /\ 2 * Abs(r.m * Pow10(e.d - r.d) - e.m) <= Pow10(e.d - 4)

\* the numeric tokens of an answer without "x" or parentheses, in order
NumericTokens(text) == SelectSeq(split(replace_dash(text), " "), is_float)

RangeExample == <<"2", "0", "-", "3", "7", " ", "c", "m">>
SingleExample == <<"1", ".", "8", " ", "m">>

Elements(text) == split(text, " ")

TwoValues == <<"0", ".", "2", " ", "0", ".", "3", "7">>
OneValue == <<"1", ".", "8">>

Greater(a, b) == a.m * Pow10(b.d) > b.m * Pow10(a.d)
MaxOf(a, b) == IF Greater(a, b) THEN a ELSE b

\* the token is a decimal number (not "nan", not an infinity)
DecimalToken(tok) == is_float(tok) /\ IsDecimal(float(tok))

\* the answer holds a unit token and exactly two numbers, and neither an "x"
\* nor a parenthesis
RangeOfTwo(text) ==
    /\ HasUnitToken(text)
    /\ ~In("x", text) /\ ~In("(", text) /\ ~In(")", text)
    /\ Len(NumericTokens(text)) = 2
    /\ \A i \in 1..2 : DecimalToken(NumericTokens(text)[i])

DescendingExample == <<"3", "-", "2", " ", "c", "m">>

\* C12 as stated: for an answer that is a range of two numbers with a unit,
\* the parser followed by the resolver gives the larger of the two normalized
\* values, whichever order the two numbers are written in.
C12_Original ==
    (Resolved /\ RangeOfTwo(answer)) =>
        LET v == ResultValues(post_processed)
        IN  /\ Len(v) = 2
            /\ prediction = Float(MaxOf(float(v[1]), float(v[2])))

\* C12 amended: the parser followed by the resolver gives the second of the
\* two normalized values, in the order the numbers are written; that is the
\* larger one when the first number written is not greater than the second.
C12_SecondValue ==
    (Resolved /\ RangeOfTwo(answer)) =>
        LET v == ResultValues(post_processed)
            t == NumericTokens(answer)
        IN  /\ Len(v) = 2
            /\ prediction = Float(float(v[2]))
            /\ ~Greater(float(t[1]), float(t[2]))
                   => prediction = Float(MaxOf(float(v[1]), float(v[2])))

\* a range written downwards resolves to its smaller value
C12_Witness ==
    /\ Resolved
    /\ trait = "Height"
    /\ answer = DescendingExample
    /\ post_processed = <<"0", ".", "0", "3", " ", "0", ".", "0", "2">>
    /\ prediction = Float([m |-> 2, d |-> 2])

\* the text is the empty sequence or numbers with one space between them
IsValueSequence(text) ==
    text = <<>> \/ \A i \in 1..Len(Elements(text)) : is_float(Elements(text)[i])

\* C13: for every answer text, "No Description" and "No Number" included, the
\* three parsers return a value sequence, "No metric" or "Too many numbers" and
\* the resolver returns a value or -1; none of them raises an exception.
C13_Total ==
    /\ phase # "raised"
    /\ post_processed # IndexError
    /\ Parsed => \/ post_processed \in {NoMetric, TooManyNumbers}
                 \/ IsValueSequence(post_processed)
    /\ Resolved => \/ prediction = MinusOne
                   \/ prediction.kind \in {"float", "nan", "inf"}
    /\ (Parsed /\ answer \in {NoDescription, NoNumber}) =>
           /\ post_processed = NoMetric
           /\ Resolved => prediction = MinusOne

\* an answer QA_Prediction gives without asking, parsed and resolved
C13_Witness ==
    /\ Resolved
    /\ trait = "LeafWidth"
    /\ answer = NoNumber
    /\ post_processed = NoMetric
    /\ prediction = MinusOne

\* the parser's result is one number or two
Measured(text) ==
    /\ Len(Elements(text)) \in {1, 2}
    /\ \A i \in 1..Len(Elements(text)) : is_float(Elements(text)[i])

\* p is a number equal to -1 (for Python -1.0 == -1)
EqualsMinusOne(p) == p.kind \in {"int", "float"} /\ p.m = -1 /\ p.d = 0

ZeroExample == <<"0", " ", "c", "m">>

Completed == 1..(pass - 1)

\* what the row gets in a pass: QA_Prediction on the description of the row,
\* then the post-processing of the trait on the answer selected
OwnResult(row, p) ==
    LET sel == QA_Prediction(p.focus.questions, row.QA_description, model_dict[p.model])
    IN  [Questions |-> sel.question,
         Answers |-> sel.answer,
         Scores |-> Number(sel.score, 3),
         Predictions |-> post_post_process_answer(
                             post_process_answer(p.focus.trait, sel.answer))]

\* the column names of the passes that have been run on a dataset
CompletedNames(ds) ==
    {<<Passes[n].focus.focus_code, OutputVars[v], Passes[n].model>> :
        n \in {k \in Completed : Passes[k].dataset = ds}, v \in 1..Len(OutputVars)}

\* C15: no pass raises, and at the end of each pass, in the frame of its
\* dataset, every row that holds a value of the trait has in the four columns
\* of the pass (question, answer, score, prediction) the result computed from
\* its own description, every other row has "" in them, and the columns of the
\* earlier passes still hold what those passes wrote; the loops add no other
\* column.
C15_RowsOwnResult ==
    /\ bpc # "raised"
    /\ bpc = "next" =>
        /\ \A n \in Completed :
               LET p == Passes[n]
                   df == df_dict[p.dataset]
                   name(v) == <<p.focus.focus_code, OutputVars[v], p.model>>
               IN  /\ \A v \in 1..Len(OutputVars) :
                          /\ name(v) \in DOMAIN df.columns
                          /\ Len(df.columns[name(v)]) = Len(df.rows)
                   /\ \A r \in 1..Len(df.rows) :
                          LET own == IF p.focus.focus_code \in df.rows[r].notna
                                     THEN OwnResult(df.rows[r], p)
                                     ELSE [Questions |-> blank("Questions"),
                                           Answers |-> blank("Answers"),
                                           Scores |-> blank("Scores"),
                                           Predictions |-> blank("Predictions")]
                          IN  \A v \in 1..Len(OutputVars) :
                                  df.columns[name(v)][r] = own[OutputVars[v]]
        /\ \A ds \in Datasets : DOMAIN df_dict[ds].columns = CompletedNames(ds)

\* all the passes are done on a frame whose first row holds no height and
\* whose second row does: the second row holds its own height prediction
\* next to the leaf columns written after it, the first row holds ""
C15_Witness ==
    /\ bpc = "next"
    /\ pass > Len(Passes)
    /\ LET df == df_dict["POWO"]
       IN  /\ Len(df.rows) = 2
           /\ "1.6.2" \notin df.rows[1].notna
           /\ "4.6.2" \in df.rows[1].notna
           /\ "1.6.2" \in df.rows[2].notna
           /\ df.columns[<<"1.6.2", "Predictions", "ROBERTA">>][1] = EmptyStr
           /\ df.columns[<<"1.6.2", "Answers", "ROBERTA">>][1] = <<>>
           /\ df.columns[<<"1.6.2", "Predictions", "ROBERTA">>][2] = Float([m |-> 3, d |-> 0])
           /\ df.columns[<<"1.6.2", "Questions", "ROBERTA">>][2] # ""
           /\ df.columns[<<"4.6.2", "Predictions", "DistilBERT">>][1] = Float([m |-> 4, d |-> 0])

====
